---- MODULE Spec2Model ----
(***************************************************************************)
(* Page-generation layer of the static site generator (src/gencontent.py): *)
(* extract_title, generate_page and generate_pages_recursive.              *)
(*                                                                         *)
(* Text is modelled character by character: a Python str is a sequence of  *)
(* one-character strings, so that split, startswith, endswith, rstrip and  *)
(* replace are computed as Python computes them.  A path is a sequence of  *)
(* components (each a character sequence); os.path.join on relative parts  *)
(* is concatenation of component sequences.                                *)
(***************************************************************************)
EXTENDS Integers, Sequences, FiniteSets, TLC

VARIABLES
    caller,         \* "walk": generate_pages_recursive is running; "direct": generate_page / extract_title called directly
    pc,             \* position in the code
    err,            \* exception that ended the run, "none" while none was raised
    tree,           \* content tree: for each directory of WalkDirs, the set of file names in it
    dirIdx,         \* os.walk: index in WalkDirs of the directory being listed (0 before the first)
    pending,        \* os.walk: files of the current directory not yet iterated
    file,           \* generate_pages_recursive: loop variable `file`
    rel_dir,        \* generate_pages_recursive: local rel_dir
    output_subdir,  \* generate_pages_recursive: local output_subdir
    input_path,     \* generate_page: parameter
    output_path,    \* generate_page: parameter
    basepath,       \* generate_page: parameter / local (reassigned by the normalisation)
    markdown,       \* generate_page: local
    title,          \* generate_page: local
    html_content,   \* generate_page: local
    template,       \* generate_page: local
    html,           \* generate_page: local
    outDirs,        \* file system: existing directories (resolved paths)
    outFiles,       \* file system: regular files below the output directory, resolved path -> content
    fsBefore,       \* file system files as they were when the current generate_page call was entered
    log             \* history of the file-system operations performed, in order

vars == <<caller, pc, err, tree, dirIdx, pending, file, rel_dir, output_subdir,
          input_path, output_path, basepath, markdown, title, html_content,
          template, html, outDirs, outFiles, fsBefore, log>>

walkVars == <<tree, dirIdx, pending, file, rel_dir, output_subdir>>
pageVars == <<markdown, title, html_content, template, html>>
fsVars   == <<outDirs, outFiles, log>>

----------------------------------------------------------------------------
(* Bounds *)

\* longest Markdown document enumerated for extract_title
MaxLen == 7
\* largest number of fragments a template is assembled from
MaxFrags == 2
\* largest number of files in a content tree
MaxFiles == 3

----------------------------------------------------------------------------
(* Python str operations *)

NL == "\n"
SLASH == "/"

\* s[n:]
Drop(s, n) == SubSeq(s, n + 1, Len(s))

\* s.startswith(p)
StartsWith(s, p) == Len(s) >= Len(p) /\ SubSeq(s, 1, Len(p)) = p

\* s.endswith(p)
EndsWith(s, p) == Len(s) >= Len(p) /\ SubSeq(s, Len(s) - Len(p) + 1, Len(s)) = p

\* s.replace(old, new, 1): only the first occurrence is replaced
RECURSIVE ReplaceFirst(_, _, _)
ReplaceFirst(s, old, new) ==
    IF Len(s) < Len(old) THEN s
    ELSE IF SubSeq(s, 1, Len(old)) = old THEN new \o SubSeq(s, Len(old) + 1, Len(s))
    ELSE <<Head(s)>> \o ReplaceFirst(Tail(s), old, new)

\* s.replace(old, new) for a non-empty old: every non-overlapping occurrence,
\* found left to right
RECURSIVE Replace(_, _, _)
Replace(s, old, new) ==
    IF Len(s) < Len(old) THEN s
    ELSE IF StartsWith(s, old) THEN new \o Replace(Drop(s, Len(old)), old, new)
    ELSE <<Head(s)>> \o Replace(Tail(s), old, new)

\* s[:-1] on a string ending with a slash: one trailing slash is removed
RStripOne(s) ==
    IF s # <<>> /\ s[Len(s)] = "/" THEN SubSeq(s, 1, Len(s) - 1) ELSE s

\* s.rstrip("/"): every trailing slash is removed
RECURSIVE RStrip(_)
RStrip(s) ==
    IF s # <<>> /\ s[Len(s)] = SLASH THEN RStrip(SubSeq(s, 1, Len(s) - 1)) ELSE s

\* s.split("\n"): always at least one line; no separator is kept
RECURSIVE Split(_)
Split(s) ==
    IF \A i \in 1..Len(s) : s[i] # NL THEN <<s>>
    ELSE LET k == CHOOSE i \in 1..Len(s) : s[i] = NL /\ \A j \in 1..(i - 1) : s[j] # NL
         IN  <<SubSeq(s, 1, k - 1)>> \o Split(Drop(s, k))

----------------------------------------------------------------------------
(* Literals of the source *)

TitleToken    == <<"{","{"," ","T","i","t","l","e"," ","}","}">>
ContentToken  == <<"{","{"," ","C","o","n","t","e","n","t"," ","}","}">>
HrefAttr      == <<"h","r","e","f","=","\"">>
SrcAttr       == <<"s","r","c","=","\"">>
Marker        == <<"H","T","M","L","S","t","a","t","i","c","S","i","t","e">>
HrefMarker    == HrefAttr \o Marker
SrcMarker     == SrcAttr \o Marker
HrefRoot      == HrefAttr \o <<SLASH>>
SrcRoot       == SrcAttr \o <<SLASH>>
HeadingPrefix == <<"#", " ">>
MdExt         == <<".","m","d">>
HtmlExt       == <<".","h","t","m","l">>
DefaultBasepath == <<SLASH>>

----------------------------------------------------------------------------
(* extract_title *)

\* the same loop returning line[2:].strip(): blanks around the title are lost
RECURSIVE StripBlanks(_)
StripBlanks(s) ==
    IF s # <<>> /\ Head(s) = " " THEN StripBlanks(Tail(s))
    ELSE IF s # <<>> /\ s[Len(s)] = " " THEN StripBlanks(SubSeq(s, 1, Len(s) - 1))
    ELSE s

RECURSIVE FirstTitleStripped(_)
FirstTitleStripped(lines) ==
    IF lines = <<>> THEN [ok |-> FALSE, val |-> <<>>]
    ELSE IF StartsWith(Head(lines), HeadingPrefix)
         THEN [ok |-> TRUE, val |-> StripBlanks(Drop(Head(lines), 2))]
         ELSE FirstTitleStripped(Tail(lines))

\* the for loop over the lines: the first line starting with "# " returns
\* line[2:]; falling off the end raises ValueError
RECURSIVE FirstTitle(_)
FirstTitle(lines) ==
    IF lines = <<>> THEN [ok |-> FALSE, val |-> <<>>]
    ELSE IF StartsWith(Head(lines), HeadingPrefix)
         THEN [ok |-> TRUE, val |-> Drop(Head(lines), 2)]
         ELSE FirstTitle(Tail(lines))

\* the same function testing line.lstrip().startswith("# "): an indented
\* heading counts
RECURSIVE LStrip(_)
LStrip(s) == IF s # <<>> /\ Head(s) = " " THEN LStrip(Tail(s)) ELSE s

extract_title_lstrip(md) ==
    FirstTitle([i \in 1..Len(Split(md)) |-> LStrip(Split(md)[i])])

extract_title(md) == FirstTitle(Split(md))

----------------------------------------------------------------------------
(* Paths and the file system *)

Dot        == <<".">>
ContentDir == << <<"c","o","n","t","e","n","t">> >>
OutputDir  == << <<"p","u","b","l","i","c">> >>
Blog       == <<"b","l","o","g">>
Drafts     == <<"d","r","a","f","t","s">>

\* os.path.relpath(root, start) for a root at or below start
relpath(root, start) == IF root = start THEN <<Dot>> ELSE Drop(root, Len(start))

\* the file the operating system reaches through a path: "." components
\* name the directory they stand in
Resolve(path) == SelectSeq(path, LAMBDA c : c # Dot)

\* directory holding the file or directory a resolved path names
Parent(path) == SubSeq(path, 1, Len(path) - 1)

\* os.makedirs(d, exist_ok=True): d and every missing ancestor exist afterwards
makedirs(dirs, d) == dirs \cup {SubSeq(Resolve(d), 1, k) : k \in 1..Len(Resolve(d))}

\* line 50: file.replace(".md", ".html")
output_filename(f) == Replace(f, MdExt, HtmlExt)

\* result of open(path, 'r') on a file that cannot be read
Unreadable == <<"IOError">>
\* content of a page left by an earlier run
OldPage == <<"o","l","d">>

----------------------------------------------------------------------------
(* Inputs *)

\* directories of the content tree relative to the content directory, in the
\* top-down order os.walk yields them
WalkDirs == << <<>>, <<Blog>>, <<Blog, Drafts>> >>

FileNames == { <<"a",".","m","d">>,
               <<"a",".","m","d",".","m","d">>,
               <<"a",".","h","t","m","l",".","m","d">>,
               <<"n",".","m","d","x",".","m","d">>,
               <<"b",".","t","x","t">> }

TreeSize(t) == Cardinality({p \in (1..Len(WalkDirs)) \X FileNames : p[2] \in t[p[1]]})

Trees == {t \in [1..Len(WalkDirs) -> SUBSET FileNames] : TreeSize(t) <= MaxFiles}

DocAlphabet == {"#", " ", NL, "a"}

\* every document of at most n characters
AllDocs(n) == UNION {[1..k -> DocAlphabet] : k \in 0..n}

Fragments == {
    HrefMarker \o <<"/","s","t","y","l","e",".","c","s","s","\"">>,
    SrcMarker \o <<"/","i",".","p","n","g","\"">>,
    HrefRoot \o <<"a","b","o","u","t","\"">>,
    SrcRoot \o <<"i",".","p","n","g","\"">>,
    TitleToken,
    ContentToken,
    <<"{","{"," ">>,
    <<"x">> }

\* every template made of at most n fragments
RECURSIVE Templates(_)
Templates(n) ==
    IF n = 0 THEN {<<>>}
    ELSE Templates(n - 1) \cup {t \o f : t \in Templates(n - 1), f \in Fragments}

Basepaths == { <<"/">>, <<>>,
               <<"m","y","r","e","p","o">>,
               <<"m","y","r","e","p","o","/">>,
               <<"/","m","y","r","e","p","o","/">>,
               <<"a","/","/">>,
               SrcRoot }

\* what reading the input file can give
InputChoices(c) ==
    IF c = "walk"
    THEN {Unreadable, <<"#"," ","a">>, <<"a">>}
    ELSE {Unreadable, <<"a">>, <<"#"," ">>, <<"#"," ","T">>,
          <<"#"," ">> \o TitleToken, <<"#"," ">> \o ContentToken}

\* what reading the template file can give
TemplateChoices(c) ==
    IF c = "walk"
    THEN {Unreadable, TitleToken \o ContentToken}
    ELSE {Unreadable} \cup Templates(MaxFrags)

\* markdown_to_html_node(markdown).to_html(): the renderer is an external
\* collaborator; its result is an HTML string this layer does not interpret
RenderedBodies(c) ==
    IF c = "walk"
    THEN { <<"<","p",">","b","<","/","p",">">> }
    ELSE { <<"<","p",">","b","<","/","p",">">>, TitleToken }

\* the output tree before the run: output directory absent, present and
\* empty, or holding a page of an earlier run
InitialFS == {
    [dirs |-> {}, files |-> <<>>],
    [dirs |-> {OutputDir}, files |-> <<>>],
    [dirs |-> {OutputDir}, files |-> (OutputDir \o << <<"a",".","h","t","m","l">> >>) :> OldPage] }

----------------------------------------------------------------------------
(* Initial states *)

Locals ==
    /\ err = "none"
    /\ dirIdx = 0 /\ pending = {}
    /\ file = <<>> /\ rel_dir = <<>> /\ output_subdir = <<>>
    /\ title = <<>> /\ html_content = <<>> /\ template = <<>> /\ html = <<>>
    /\ log = <<>>

\* generate_pages_recursive(content_dir, template_path, output_dir) is called
Init ==
    /\ caller = "walk" /\ pc = "walk"
    /\ tree \in Trees
    /\ Locals
    /\ input_path = <<>> /\ output_path = <<>> /\ markdown = <<>>
    /\ basepath = DefaultBasepath
    /\ \E fs \in InitialFS : outDirs = fs.dirs /\ outFiles = fs.files /\ fsBefore = fs.files

\* generate_page(input_path, template_path, output_path, basepath) is called
InitPage ==
    /\ caller = "direct" /\ pc = "gp_read"
    /\ tree = [i \in 1..Len(WalkDirs) |-> {}]
    /\ Locals
    /\ input_path = ContentDir \o << <<"i","n",".","m","d">> >>
    /\ output_path = OutputDir \o << <<"o","u","t",".","h","t","m","l">> >>
    /\ markdown = <<>>
    /\ basepath \in Basepaths
    /\ outDirs = {OutputDir} /\ outFiles = <<>> /\ fsBefore = <<>>

\* generate_page has read a document and is about to call extract_title on it
InitTitle ==
    /\ caller = "direct" /\ pc = "gp_title"
    /\ tree = [i \in 1..Len(WalkDirs) |-> {}]
    /\ Locals
    /\ input_path = ContentDir \o << <<"i","n",".","m","d">> >>
    /\ output_path = OutputDir \o << <<"o","u","t",".","h","t","m","l">> >>
    /\ markdown \in AllDocs(MaxLen)
    /\ basepath = DefaultBasepath
    /\ outDirs = {OutputDir} /\ outFiles = <<>> /\ fsBefore = <<>>

----------------------------------------------------------------------------
(* Exceptions *)

\* an except clause around the call of generate_page: the error is recorded
\* and the walk goes on with the next file
RaiseCaught(e) == pc' = (IF caller = "walk" THEN "walk" ELSE "raised") /\ err' = e

\* neither generate_page nor generate_pages_recursive has a try block: an
\* exception leaves every frame and ends the run
Raise(e) == pc' = "raised" /\ err' = e

Event(op, src, dst) == [op |-> op, src |-> src, dst |-> dst]

----------------------------------------------------------------------------
(* generate_page *)

\* lines 12-13: read the input file
generate_page_read_input ==
    /\ pc = "gp_read"
    /\ \E r \in InputChoices(caller) :
         IF r = Unreadable
         THEN /\ Raise("IOError_input")
              /\ UNCHANGED <<markdown, log>>
         ELSE /\ markdown' = r
              /\ log' = Append(log, Event("read", input_path, <<>>))
              /\ pc' = "gp_title" /\ err' = err
    /\ UNCHANGED <<caller, walkVars, input_path, output_path, basepath, title,
                   html_content, template, html, outDirs, outFiles, fsBefore>>

\* line 15: title = extract_title(markdown)
generate_page_extract_title ==
    /\ pc = "gp_title"
    /\ LET r == extract_title(markdown)
       IN  IF r.ok
           THEN title' = r.val /\ pc' = "gp_render" /\ err' = err
           ELSE Raise("ValueError") /\ title' = title
    /\ UNCHANGED <<caller, walkVars, input_path, output_path, basepath, markdown,
                   html_content, template, html, fsVars, fsBefore>>

\* line 16: html_content = markdown_to_html_node(markdown).to_html()
generate_page_render ==
    /\ pc = "gp_render"
    /\ html_content' \in RenderedBodies(caller)
    /\ pc' = "gp_template"
    /\ UNCHANGED <<caller, err, walkVars, input_path, output_path, basepath, markdown,
                   title, template, html, fsVars, fsBefore>>

\* the template read with the output file opened for writing beforehand: a
\* failure leaves the output file truncated
generate_page_read_template_after_open ==
    /\ pc = "gp_template"
    /\ \E r \in TemplateChoices(caller) :
         IF r = Unreadable
         THEN /\ Raise("IOError_template")
              /\ template' = template
              /\ outFiles' = (Resolve(output_path) :> <<>>) @@ outFiles
         ELSE template' = r /\ pc' = "gp_subst" /\ err' = err /\ outFiles' = outFiles
    /\ UNCHANGED <<caller, walkVars, input_path, output_path, basepath, markdown,
                   title, html_content, html, outDirs, log, fsBefore>>

\* lines 18-19: read the template file
generate_page_read_template ==
    /\ pc = "gp_template"
    /\ \E r \in TemplateChoices(caller) :
         IF r = Unreadable
         THEN Raise("IOError_template") /\ template' = template
         ELSE template' = r /\ pc' = "gp_subst" /\ err' = err
    /\ UNCHANGED <<caller, walkVars, input_path, output_path, basepath, markdown,
                   title, html_content, html, fsVars, fsBefore>>

\* lines 21-22: the two placeholder replacements, Title first
substitute(tpl, t, body) == Replace(Replace(tpl, TitleToken, t), ContentToken, body)

generate_page_substitute ==
    /\ pc = "gp_subst"
    /\ html' = substitute(template, title, html_content)
    /\ pc' = "gp_norm"
    /\ UNCHANGED <<caller, err, walkVars, input_path, output_path, basepath, markdown,
                   title, html_content, template, fsVars, fsBefore>>

\* lines 27-28: if not basepath.endswith("/"): basepath += "/"
normalize(bp) == IF EndsWith(bp, <<SLASH>>) THEN bp ELSE bp \o <<SLASH>>

generate_page_normalize ==
    /\ pc = "gp_norm"
    /\ basepath' = normalize(basepath)
    /\ pc' = "gp_mhref"
    /\ UNCHANGED <<caller, err, walkVars, input_path, output_path, pageVars,
                   fsVars, fsBefore>>

Rewrite(at, next, old, new) ==
    /\ pc = at
    /\ html' = Replace(html, old, new)
    /\ pc' = next
    /\ UNCHANGED <<caller, err, walkVars, input_path, output_path, basepath, markdown,
                   title, html_content, template, fsVars, fsBefore>>

\* line 31: html.replace('href="HTMLStaticSite', f'href="{basepath}')
generate_page_marker_href == Rewrite("gp_mhref", "gp_msrc", HrefMarker, HrefAttr \o basepath)

\* line 32: html.replace('src="HTMLStaticSite', f'src="{basepath}')
generate_page_marker_src == Rewrite("gp_msrc", "gp_rhref", SrcMarker, SrcAttr \o basepath)

\* line 33: html.replace('href="/', f'href="{basepath.rstrip("/")}/')
generate_page_root_href ==
    Rewrite("gp_rhref", "gp_rsrc", HrefRoot, HrefAttr \o RStrip(basepath) \o <<SLASH>>)

\* line 34: html.replace('src="/', f'src="{basepath.rstrip("/")}/')
generate_page_root_src ==
    Rewrite("gp_rsrc", "gp_write", SrcRoot, SrcAttr \o RStrip(basepath) \o <<SLASH>>)

\* lines 38-39: open(output_path, 'w') and f.write(html).  open fails when the
\* parent directory is missing or the file cannot be written and then leaves
\* the file system alone; write fails after open has truncated the file
generate_page_write ==
    /\ pc = "gp_write"
    /\ LET p == Resolve(output_path)
       IN  \E o \in {"ok", "open_fails", "write_fails"} :
             /\ o # "open_fails" => Parent(p) \in outDirs
             /\ CASE o = "ok" ->
                       /\ outFiles' = (p :> html) @@ outFiles
                       /\ log' = Append(log, Event("write", input_path, p))
                       /\ pc' = IF caller = "walk" THEN "walk" ELSE "done"
                       /\ err' = err
                  [] o = "open_fails" ->
                       /\ Raise("IOError_output")
                       /\ UNCHANGED <<outFiles, log>>
                  [] o = "write_fails" ->
                       /\ outFiles' = (p :> <<>>) @@ outFiles
                       /\ log' = Append(log, Event("open", input_path, p))
                       /\ Raise("IOError_output")
    /\ UNCHANGED <<caller, walkVars, input_path, output_path, basepath, pageVars,
                   outDirs, fsBefore>>

----------------------------------------------------------------------------
(* generate_pages_recursive *)

\* line 42: os.walk yields the next directory with the list of its files
generate_pages_recursive_next_dir ==
    /\ pc = "walk" /\ pending = {} /\ dirIdx < Len(WalkDirs)
    /\ dirIdx' = dirIdx + 1
    /\ pending' = tree[dirIdx + 1]
    /\ UNCHANGED <<caller, pc, err, tree, file, rel_dir, output_subdir, input_path,
                   output_path, basepath, pageVars, fsVars, fsBefore>>

\* lines 43-44: a file whose name does not end with ".md" is passed over
generate_pages_recursive_skip ==
    /\ pc = "walk"
    /\ \E f \in pending :
         /\ ~EndsWith(f, MdExt)
         /\ file' = f
         /\ pending' = pending \ {f}
    /\ UNCHANGED <<caller, pc, err, tree, dirIdx, rel_dir, output_subdir, input_path,
                   output_path, basepath, pageVars, fsVars, fsBefore>>

\* lines 43-47: the next file of the listing ends with ".md"
generate_pages_recursive_file ==
    /\ pc = "walk"
    /\ \E f \in pending :
         /\ EndsWith(f, MdExt)
         /\ file' = f
         /\ pending' = pending \ {f}
         /\ LET root == ContentDir \o WalkDirs[dirIdx]
            IN  /\ rel_dir' = relpath(root, ContentDir)
                /\ input_path' = root \o <<f>>
                /\ output_subdir' = OutputDir \o rel_dir'
    /\ pc' = "makedirs"
    /\ UNCHANGED <<caller, err, tree, dirIdx, output_path, basepath, pageVars,
                   fsVars, fsBefore>>

\* lines 48-53: os.makedirs(output_subdir, exist_ok=True), then the output
\* path is computed and generate_page is called
generate_pages_recursive_makedirs ==
    /\ pc = "makedirs"
    /\ \E ok \in BOOLEAN :
         IF ok
         THEN /\ outDirs' = makedirs(outDirs, output_subdir)
              /\ log' = Append(log, Event("makedirs", input_path, Resolve(output_subdir)))
              /\ output_path' = output_subdir \o <<output_filename(file)>>
              /\ fsBefore' = outFiles
              /\ basepath' = DefaultBasepath   \* the walk's own basepath, left at its default
              /\ pc' = "gp_read" /\ err' = err
         ELSE /\ Raise("OSError_makedirs")
              /\ UNCHANGED <<outDirs, log, output_path, fsBefore, basepath>>
    /\ UNCHANGED <<caller, walkVars, input_path, pageVars, outFiles>>

\* line 42: os.walk is exhausted, generate_pages_recursive returns
generate_pages_recursive_return ==
    /\ pc = "walk" /\ pending = {} /\ dirIdx = Len(WalkDirs)
    /\ pc' = "done"
    /\ UNCHANGED <<caller, err, walkVars, input_path, output_path, basepath, pageVars,
                   fsVars, fsBefore>>

----------------------------------------------------------------------------
(* Specifications *)

PageNext ==
    \/ generate_page_read_input
    \/ generate_page_extract_title
    \/ generate_page_render
    \/ generate_page_read_template
    \/ generate_page_substitute
    \/ generate_page_normalize
    \/ generate_page_marker_href
    \/ generate_page_marker_src
    \/ generate_page_root_href
    \/ generate_page_root_src
    \/ generate_page_write

Next ==
    \/ generate_pages_recursive_next_dir
    \/ generate_pages_recursive_skip
    \/ generate_pages_recursive_file
    \/ generate_pages_recursive_makedirs
    \/ generate_pages_recursive_return
    \/ PageNext

TitleNext == generate_page_extract_title

\* a run of generate_pages_recursive
Spec == Init /\ [][Next]_vars

\* a call of generate_page
SpecPage == InitPage /\ [][PageNext]_vars

\* a call of extract_title from generate_page
SpecTitle == InitTitle /\ [][TitleNext]_vars

----------------------------------------------------------------------------
(* Vocabulary of the properties *)

\* s contains sub
Contains(s, sub) ==
    \E i \in 1..(Len(s) - Len(sub) + 1) : SubSeq(s, i, i + Len(sub) - 1) = sub

Min(S) == CHOOSE x \in S : \A y \in S : x <= y

\* positions of a document where a line of the form "# " + s begins
Headings(md) ==
    {p \in 1..(Len(md) - 1) :
        /\ p = 1 \/ md[p - 1] = NL
        /\ md[p] = "#"
        /\ md[p + 1] = " "}

\* the text from position p up to the end of its line
RestOfLine(md, p) ==
    LET e == CHOOSE q \in p..(Len(md) + 1) :
                 /\ q = Len(md) + 1 \/ md[q] = NL
                 /\ \A j \in p..(q - 1) : md[j] # NL
    IN  SubSeq(md, p, e - 1)

Rule(old, new) == [old |-> old, new |-> new]

\* s rewritten in one pass from left to right: where the old text of a rule
\* begins, its new text is put and the scan resumes after the old text;
\* text that was put is never examined again
RECURSIVE OnePass(_, _)
OnePass(s, rules) ==
    IF s = <<>> THEN <<>>
    ELSE LET m == {i \in 1..Len(rules) : StartsWith(s, rules[i].old)}
         IN  IF m = {}
             THEN <<Head(s)>> \o OnePass(Tail(s), rules)
             ELSE rules[Min(m)].new \o OnePass(Drop(s, Len(rules[Min(m)].old)), rules)

MarkerRules(bp) == << Rule(HrefMarker, HrefAttr \o bp), Rule(SrcMarker, SrcAttr \o bp) >>
RootRules(prefix) ==
    << Rule(HrefRoot, HrefAttr \o prefix \o <<SLASH>>),
       Rule(SrcRoot, SrcAttr \o prefix \o <<SLASH>>) >>

\* the page after step 5 (placeholders substituted), before any link rewriting
Substituted == substitute(template, title, html_content)

\* the page generate_page has written
Written == outFiles[Resolve(output_path)]

PageDone == caller = "direct" /\ pc = "done"

Quote == "\""
NoQuote(s) == \A i \in 1..Len(s) : s[i] # Quote
BraceFree(s) == \A i \in 1..Len(s) : s[i] \notin {"{", "}"}

\* every brace of s belongs to an occurrence of one of the two tokens
BracesInTokens(s) ==
    \A i \in 1..Len(s) :
        s[i] \in {"{", "}"} =>
            \E tok \in {TitleToken, ContentToken} :
                \E j \in 1..i :
                    /\ i < j + Len(tok)
                    /\ j + Len(tok) - 1 <= Len(s)
                    /\ SubSeq(s, j, j + Len(tok) - 1) = tok

\* bp without any of its trailing slashes: its longest prefix not ending in one
SlashesRemoved(bp) ==
    LET k == CHOOSE i \in 0..Len(bp) :
                 /\ i = 0 \/ bp[i] # SLASH
                 /\ \A j \in (i + 1)..Len(bp) : bp[j] = SLASH
    IN  SubSeq(bp, 1, k)

MyRepoSlash == <<"m","y","r","e","p","o","/">>
StyleLink(prefix) == HrefAttr \o prefix \o <<"s","t","y","l","e",".","c","s","s","\"">>
AboutLink(prefix) == HrefAttr \o prefix \o <<"a","b","o","u","t","\"">>

----------------------------------------------------------------------------
(* extract_title *)

TitleCalled == caller = "direct" /\ pc \in {"gp_render", "raised"}

\* C1: when the document has a line "# " + s, extract_title returns s of the
\* first such line, verbatim up to the end of that line
C1_FirstHeadingVerbatim ==
    (TitleCalled /\ Headings(markdown) # {}) =>
        /\ pc = "gp_render"
        /\ title = RestOfLine(markdown, Min(Headings(markdown)) + 2)

\* C1 witness: two heading lines with different texts, the first one ending
\* with a blank that is kept
C1_Witness ==
    /\ TitleCalled /\ pc = "gp_render"
    /\ Cardinality(Headings(markdown)) = 2
    /\ title = <<"a", " ">>

\* C2: extract_title raises the missing-title error exactly when no line of
\* the document starts with "# "
C2_MissingTitleIff ==
    TitleCalled =>
        /\ (err = "ValueError") <=> (Headings(markdown) = {})
        /\ (pc = "raised") <=> (err = "ValueError")

\* C2 witness: the error is raised on a document whose only "# " is indented
C2_Witness ==
    /\ TitleCalled /\ err = "ValueError"
    /\ markdown = <<" ", "#", " ", "a">>

----------------------------------------------------------------------------
(* generate_page: link rewriting *)

\* C3: with base path "myrepo" (normalised "myrepo/"), a template holding
\* href="HTMLStaticSite/style.css" gives a page holding href="myrepo/style.css"
C3_MarkerSingleSlash ==
    (PageDone /\ basepath = MyRepoSlash /\ Contains(template, StyleLink(Marker \o <<SLASH>>)))
        => Contains(Written, StyleLink(MyRepoSlash))

\* C4 as stated: every href="/ and src="/ becomes the attribute followed by
\* the normalised base path less its one trailing slash, followed by "/"
C4_OneSlashRemoved ==
    (PageDone /\ NoQuote(basepath)) =>
        Written = OnePass(OnePass(Substituted, MarkerRules(basepath)),
                          RootRules(SubSeq(basepath, 1, Len(basepath) - 1)))

\* C4 amended: every href="/ and src="/ becomes the attribute followed by the
\* normalised base path less all its trailing slashes, followed by "/"; so
\* "myrepo" turns href="/about" into href="myrepo/about" and the default "/"
\* leaves a page without marker links unchanged
C4_RootLinksRerooted ==
    (PageDone /\ NoQuote(basepath)) =>
        /\ EndsWith(basepath, <<SLASH>>)
        /\ Written = OnePass(OnePass(Substituted, MarkerRules(basepath)),
                             RootRules(SlashesRemoved(basepath)))
        /\ (basepath = MyRepoSlash /\ Contains(Substituted, AboutLink(<<SLASH>>)))
               => Contains(Written, AboutLink(MyRepoSlash))
        /\ (basepath = DefaultBasepath /\ ~Contains(Substituted, Marker))
               => Written = Substituted

\* C4 witness: a base path ending in two slashes has re-rooted a root link
C4_Witness ==
    /\ PageDone
    /\ basepath = <<"a", "/", "/">>
    /\ Contains(template, AboutLink(<<SLASH>>))
    /\ Contains(Written, AboutLink(<<"a", "/">>))

\* C5: no link is rewritten twice: the page is the substituted page with each
\* marker link and each root link rewritten once, text put by a rewrite never
\* being rewritten again
C5_NoDoubleRewrite ==
    (PageDone /\ NoQuote(basepath)) =>
        Written = OnePass(Substituted, MarkerRules(basepath) \o RootRules(SlashesRemoved(basepath)))

----------------------------------------------------------------------------
(* generate_page: placeholders *)

TokenRules == << Rule(TitleToken, title), Rule(ContentToken, html_content) >>

NoTokenLeft(s) == ~Contains(s, TitleToken) /\ ~Contains(s, ContentToken)

\* C9 as stated: for every template, title and body, each token of the
\* template is replaced by its value and the written page holds no token
C9_NoTokenRemains ==
    /\ (caller = "direct" /\ pc = "gp_norm") => html = OnePass(template, TokenRules)
    /\ PageDone => NoTokenLeft(Written)

TokenSafe ==
    /\ BraceFree(title) /\ BraceFree(html_content) /\ BraceFree(basepath)
    /\ BracesInTokens(template)

\* C9 amended: when title, body and base path hold no brace and every brace of
\* the template belongs to a token, each token of the template is replaced by
\* its value and the written page holds no token
C9_TokensReplaced ==
    /\ (caller = "direct" /\ pc = "gp_norm" /\ TokenSafe)
           => (html = OnePass(template, TokenRules) /\ NoTokenLeft(html))
    /\ (PageDone /\ TokenSafe) => NoTokenLeft(Written)

\* C9 witness: a template with both tokens was written with both replaced
C9_Witness ==
    /\ PageDone /\ TokenSafe
    /\ template = TitleToken \o ContentToken
    /\ title = <<"T">>
    /\ Written = title \o html_content

----------------------------------------------------------------------------
(* generate_pages_recursive *)

Events(op) == {i \in 1..Len(log) : log[i].op = op}

\* the Markdown files of the content tree, as (directory index, file name)
MdFiles == {p \in (1..Len(WalkDirs)) \X FileNames : p[2] \in tree[p[1]] /\ EndsWith(p[2], MdExt)}

InputPath(p) == ContentDir \o WalkDirs[p[1]] \o <<p[2]>>

\* the Markdown files the walk has not reached yet
Unreached == {p \in MdFiles : p[1] > dirIdx \/ (p[1] = dirIdx /\ p[2] \in pending)}

\* a file name with its trailing ".md" replaced by ".html"
TrailingHtml(f) == SubSeq(f, 1, Len(f) - Len(MdExt)) \o HtmlExt

\* the mirrored output path of a Markdown file
Mirrored(p) == OutputDir \o WalkDirs[p[1]] \o <<TrailingHtml(p[2])>>

\* C6: after a walk that completed without error, the pages written are
\* exactly the mirrored paths of the files ending in ".md", only the trailing
\* extension being changed
C6_MirroredTree ==
    (caller = "walk" /\ pc = "done") =>
        {log[i].dst : i \in Events("write")} = {Mirrored(p) : p \in MdFiles}

\* C7: two distinct input files of one walk never get the same output path
C7_OutputPathsInjective ==
    \A i, j \in Events("write") :
        log[i].src # log[j].src => log[i].dst # log[j].dst

\* every operation performed so far belongs to a file the walk has reached,
\* files are handled one after the other, none is read twice, and the pages
\* written are on disk
WalkOrderly ==
    /\ \A i \in 1..Len(log) : \A p \in Unreached : log[i].src # InputPath(p)
    /\ \A i, k \in 1..Len(log) : \A j \in i..k :
           log[i].src = log[k].src => log[j].src = log[i].src
    /\ \A i, j \in Events("read") : log[i].src = log[j].src => i = j
    /\ \A i \in Events("write") : log[i].dst \in DOMAIN outFiles
    /\ pc = "raised" <=> err # "none"

\* C8: the walk is fail-fast: files are handled strictly one at a time, and
\* once an error was raised no further step is taken, so no later file is
\* read, gets its directory made or its page written, while the pages written
\* before remain on disk
C8_FailFast == [](caller = "walk" => WalkOrderly) /\ [][err = "none"]_vars

\* C8 witness: the walk stopped on a missing title after a page was written
\* and before another Markdown file was reached
C8_Witness ==
    /\ caller = "walk" /\ pc = "raised" /\ err = "ValueError"
    /\ Unreached # {}
    /\ \E i \in Events("write") : log[i].src # input_path /\ log[i].dst \in DOMAIN outFiles

\* C10: when generate_page fails on the input read, on the missing title or on
\* the template read, the file at output_path is as it was when generate_page
\* was entered: absent if it was absent, unchanged if it was present
C10_OutputUntouched ==
    (caller = "walk" /\ err \in {"IOError_input", "ValueError", "IOError_template"}) =>
        LET p == Resolve(output_path)
        IN  /\ (p \in DOMAIN outFiles) <=> (p \in DOMAIN fsBefore)
            /\ p \in DOMAIN outFiles => outFiles[p] = fsBefore[p]

\* C10 witness: the template could not be read and the page an earlier run
\* left at output_path is still there
C10_Witness ==
    /\ caller = "walk" /\ err = "IOError_template"
    /\ Resolve(output_path) \in DOMAIN outFiles
    /\ outFiles[Resolve(output_path)] = OldPage

====
